---- MODULE Spec2Model ----
(***************************************************************************)
(* Model of the expression tree of turn-render and of its conversion to    *)
(* serde_json::Value.                                                       *)
(*                                                                          *)
(* src/mod.rs declares MathNode / MathNodeContent and is the only file     *)
(* that implements to_json; src/math_node.rs declares the newer revision   *)
(* of the same types (Arc children, Custom operators, None operator tags)  *)
(* and implements no to_json.                                               *)
(***************************************************************************)
EXTENDS Integers, Sequences, FiniteSets, TLC

VARIABLES tree, depth, result, pc, tree2, result2

vars == <<tree, depth, result, pc, tree2, result2>>

(***************************************************************************)
(* serde_json::Value.  Every value carries its kind in jt, so that values  *)
(* of different kinds compare unequal.  An object keeps its entries in the *)
(* order json! inserts them.  PANIC is not a Value: it stands for a call   *)
(* that unwound instead of returning.                                       *)
(***************************************************************************)
JNull == [jt |-> "null"]

JStr(s) == [jt |-> "string", jv |-> s]

JNum(n) == [jt |-> "number", jv |-> n]

JBool(b) == [jt |-> "bool", jv |-> b]

JArr(items) == [jt |-> "array", jv |-> items]

JObj(entries) == [jt |-> "object", jv |-> entries]

PANIC == [jt |-> "panic"]

NoResult == [jt |-> "none"]

\* The collected array with its elements in reverse order.
json_array_reversed(items) ==
    IF \E i \in 1..Len(items) : items[i] = PANIC
    THEN PANIC
    ELSE JArr([i \in 1..Len(items) |-> items[Len(items) + 1 - i]])

\* json!([...]) / collect::<Vec<_>>(): an element whose evaluation panics
\* unwinds the whole expression.
json_array(items) ==
    IF \E i \in 1..Len(items) : items[i] = PANIC THEN PANIC ELSE JArr(items)

\* json!({...}): the entries are evaluated and inserted in source order.
json_object(entries) ==
    IF \E i \in 1..Len(entries) : entries[i][2] = PANIC
    THEN PANIC
    ELSE JObj(entries)

IsObject(v) == v.jt = "object"

HasKey(v, k) == IsObject(v) /\ \E i \in 1..Len(v.jv) : v.jv[i][1] = k

Get(v, k) == v.jv[CHOOSE i \in 1..Len(v.jv) : v.jv[i][1] = k][2]

Keys(v) == [i \in 1..Len(v.jv) |-> v.jv[i][1]]

(***************************************************************************)
(* Option<T>: None is the empty sequence, Some(x) the one-element one.     *)
(***************************************************************************)
None == <<>>

Some(x) == <<x>>

IsSome(o) == Len(o) = 1

Unwrap(o) == o[1]

(***************************************************************************)
(* The enums of src/mod.rs, the types to_json is implemented for.          *)
(***************************************************************************)
UnitVariant(tag) == [tag |-> tag]

RelationOperatorNode ==
    { UnitVariant(t) : t \in {"IsEqual", "Equal", "NotEqual", "Greater", "Less",
                       "GreaterEqual", "LessEqual", "Collinear",
                       "Perpendicular", "Equivalent", "Similar", "Congruent"} }

AddOrSubOperatorNode == { UnitVariant("Addition"), UnitVariant("Subtraction") }

MulSymbol == { UnitVariant(t) : t \in {"Quantity", "Symbol", "Simple", "None"} }

DivSymbol == { UnitVariant("Slash"), UnitVariant("Divide") }

RefinedMulOrDivOperation ==
    { [tag |-> "Multiplication", sym |-> s] : s \in MulSymbol }
      \cup { [tag |-> "Division", sym |-> s] : s \in DivSymbol }

DivisionStyle == { UnitVariant("Fraction"), UnitVariant("Inline"), UnitVariant("Division") }

BracketStyle ==
    { UnitVariant(t) : t \in {"Round", "Square", "Curly", "Angle", "Vertical",
                       "DoubleVertical", "Ceiling", "Floor", "None"} }

\* Sized(u8): the model draws n from 0..MaxSized.
MaxSized == 2

BracketSize ==
    { UnitVariant("Normal"), UnitVariant("Auto") }
      \cup { [tag |-> "Sized", n |-> n] : n \in 0..MaxSized }

\* Dot(usize): the model draws n from 0..MaxDot.
MaxDot == 1

SpecialMiddleScriptContentTypeNode ==
    { UnitVariant("Hat"), UnitVariant("Tilde"), UnitVariant("Bar") }
      \cup { [tag |-> "Dot", n |-> n] : n \in 0..MaxDot }

(***************************************************************************)
(* A match over an enum, as a table of arms in source order.  pat is the   *)
(* set of variant names the arm's pattern covers, out the string literal   *)
(* of the arm and arg tells whether the arm formats the variant's payload  *)
(* after it (format!("sized_{}", n)).  NoArm is the outcome for a value    *)
(* that no arm covers.                                                      *)
(***************************************************************************)
NoArm == "<no arm>"

Arm(pat, out) == [pat |-> pat, out |-> out, arg |-> FALSE]

ArmFmt(pat, out) == [pat |-> pat, out |-> out, arg |-> TRUE]

ArmsFor(arms, v) == { i \in 1..Len(arms) : v.tag \in arms[i].pat }

Match(arms, v) ==
    IF ArmsFor(arms, v) = {}
    THEN NoArm
    ELSE LET i == CHOOSE i \in ArmsFor(arms, v) :
                      \A j \in ArmsFor(arms, v) : i <= j
             a == arms[i]
         IN  IF a.arg THEN a.out \o ToString(v.n) ELSE a.out

MulSymbolArms ==
    << Arm({"Quantity"}, "times"),
       Arm({"Symbol"}, "symbol"),
       Arm({"Simple"}, "simple"),
       Arm({"None"}, "none") >>

DivSymbolArms ==
    << Arm({"Slash"}, "slash"),
       Arm({"Divide"}, "divide") >>

\* The match with both cases of the operator under one type tag.
MulOrDivArms_one_type ==
    << Arm({"Multiplication", "Division"}, "multiplication") >>

MulOrDivArms ==
    << Arm({"Multiplication"}, "multiplication"),
       Arm({"Division"}, "division") >>

AddOrSubArms ==
    << Arm({"Addition"}, "plus"),
       Arm({"Subtraction"}, "minus") >>

\* The match with the literals of the Fraction and Inline arms exchanged.
DivisionStyleArms_exchanged ==
    << Arm({"Fraction"}, "inline"),
       Arm({"Inline"}, "fraction"),
       Arm({"Division"}, "division") >>

DivisionStyleArms ==
    << Arm({"Fraction"}, "fraction"),
       Arm({"Inline"}, "inline"),
       Arm({"Division"}, "division") >>

\* The match with Ceiling and Floor under one arm.
BracketStyleArms_merged ==
    << Arm({"Round"}, "round"),
       Arm({"Square"}, "square"),
       Arm({"Curly"}, "curly"),
       Arm({"Angle"}, "angle"),
       Arm({"Vertical"}, "vertical"),
       Arm({"DoubleVertical"}, "double_vertical"),
       Arm({"Ceiling", "Floor"}, "floor"),
       Arm({"None"}, "none") >>

BracketStyleArms ==
    << Arm({"Round"}, "round"),
       Arm({"Square"}, "square"),
       Arm({"Curly"}, "curly"),
       Arm({"Angle"}, "angle"),
       Arm({"Vertical"}, "vertical"),
       Arm({"DoubleVertical"}, "double_vertical"),
       Arm({"Ceiling"}, "ceiling"),
       Arm({"Floor"}, "floor"),
       Arm({"None"}, "none") >>

\* The match with the Sized arm a plain literal: n is not formatted in.
BracketSizeArms_unformatted ==
    << Arm({"Normal"}, "normal"),
       Arm({"Auto"}, "auto"),
       Arm({"Sized"}, "sized") >>

BracketSizeArms ==
    << Arm({"Normal"}, "normal"),
       Arm({"Auto"}, "auto"),
       ArmFmt({"Sized"}, "sized_") >>

\* The match with the Congruent arm left out.
RelationOperatorArms_without_arm ==
    << Arm({"Equal", "IsEqual"}, "equal"),
       Arm({"NotEqual"}, "not_equal"),
       Arm({"Greater"}, "greater"),
       Arm({"Less"}, "less"),
       Arm({"GreaterEqual"}, "greater_equal"),
       Arm({"LessEqual"}, "less_equal"),
       Arm({"Collinear"}, "collinear"),
       Arm({"Perpendicular"}, "perpendicular"),
       Arm({"Equivalent"}, "equivalent"),
       Arm({"Similar"}, "similar") >>

RelationOperatorArms ==
    << Arm({"Equal", "IsEqual"}, "equal"),
       Arm({"NotEqual"}, "not_equal"),
       Arm({"Greater"}, "greater"),
       Arm({"Less"}, "less"),
       Arm({"GreaterEqual"}, "greater_equal"),
       Arm({"LessEqual"}, "less_equal"),
       Arm({"Collinear"}, "collinear"),
       Arm({"Perpendicular"}, "perpendicular"),
       Arm({"Equivalent"}, "equivalent"),
       Arm({"Similar"}, "similar"),
       Arm({"Congruent"}, "congruent") >>

\* The match with the literal of the Hat arm in the Tilde arm too.
MidScriptArms_merged ==
    << Arm({"Bar"}, "bar"),
       ArmFmt({"Dot"}, "dot_"),
       Arm({"Hat"}, "hat"),
       Arm({"Tilde"}, "hat") >>

MidScriptArms ==
    << Arm({"Bar"}, "bar"),
       ArmFmt({"Dot"}, "dot_"),
       Arm({"Hat"}, "hat"),
       Arm({"Tilde"}, "tilde") >>

\* The operator object of one Multiplications term.
MulOrDivOperator_to_json(op) ==
    json_object(<< <<"type", JStr(Match(MulOrDivArms, op))>>,
                   <<"symbol",
                     JStr(IF op.tag = "Multiplication"
                          THEN Match(MulSymbolArms, op.sym)
                          ELSE Match(DivSymbolArms, op.sym))>> >>)

SpecialMiddleScriptNode_to_json(m) ==
    json_object(<<
        <<"superscripts",
          json_array([i \in 1..Len(m.super_script) |->
                         JStr(Match(MidScriptArms, m.super_script[i]))])>>,
        <<"subscripts",
          json_array([i \in 1..Len(m.sub_script) |->
                         JStr(Match(MidScriptArms, m.sub_script[i]))])>> >>)

(***************************************************************************)
(* #[derive(Serialize)] on the types of src/mod.rs, as serde_json renders  *)
(* it: a struct is an object of its fields in declaration order, a unit    *)
(* variant is its name, a newtype variant is {name: payload}, a struct     *)
(* variant is {name: {fields}}, a tuple is an array, Box is transparent    *)
(* and None is null.  json!(expr) of a non-Value expression goes through   *)
(* this conversion (serde_json::to_value), not through to_json.            *)
(***************************************************************************)
NewtypeVariants == {"Text", "String", "BaseUnit"}

\* The fields of each struct variant of MathNodeContent, in declaration
\* order, with the kind of each field's type.
StructFields(tag) ==
    CASE tag = "Integration" ->
           << <<"integrand", "node">>, <<"variable", "str">>,
              <<"lower_limit", "optnode">>, <<"upper_limit", "optnode">> >>
      [] tag = "Limit" ->
           << <<"function", "node">>, <<"variable", "str">>,
              <<"approaching_value", "node">> >>
      [] tag = "Multiplications" -> << <<"terms", "multerms">> >>
      [] tag = "Additions" -> << <<"terms", "addterms">> >>
      [] tag = "Division" ->
           << <<"numerator", "node">>, <<"denominator", "node">>,
              <<"style", "enum">> >>
      [] tag = "SumNotation" ->
           << <<"summand", "node">>, <<"variable", "optnode">>,
              <<"lower_limit", "optnode">>, <<"upper_limit", "optnode">> >>
      [] tag = "ProductNotation" ->
           << <<"multiplicand", "node">>, <<"variable", "optnode">>,
              <<"lower_limit", "optnode">>, <<"upper_limit", "optnode">> >>
      [] tag = "Fraction" ->
           << <<"numerator", "node">>, <<"denominator", "node">> >>
      [] tag = "Bracketed" ->
           << <<"inner", "node">>, <<"style", "enum">>, <<"size", "enum">> >>
      [] tag = "Matrix" -> << <<"rows", "vecvecnode">> >>
      [] tag = "LogFunction" ->
           << <<"base", "optnode">>, <<"parameter", "node">> >>
      [] tag \in {"Log2", "Log10", "Ln", "Abs"} ->
           << <<"parameter", "node">> >>
      [] tag \in {"UnaryPostfix", "UnaryPrefix"} ->
           << <<"parameter", "node">>, <<"operator", "str">> >>
      [] tag = "Power" -> << <<"base", "node">>, <<"exponent", "node">> >>
      [] tag = "CustomFunction" ->
           << <<"name", "node">>, <<"parameters", "vecnode">> >>
      [] tag = "SimpleUnaryFunction" ->
           << <<"name", "str">>, <<"parameter", "node">> >>
      [] tag = "SimpleMultinaryFunction" ->
           << <<"name", "str">>, <<"parameters", "vecnode">> >>
      [] tag = "Quantity" -> << <<"number", "str">>, <<"unit", "optnode">> >>
      [] tag = "Identifier" ->
           << <<"body", "str">>, <<"pre_script", "optnode">>,
              <<"mid_script", "optmid">>, <<"post_script", "optnode">>,
              <<"primes", "num">>, <<"is_function", "bool">> >>
      [] tag = "Script" ->
           << <<"subscripts", "vecnode">>, <<"superscripts", "vecnode">> >>
      [] tag = "Unit" ->
           << <<"original_form", "node">>, <<"flattened_form", "node">> >>
      [] tag = "Relationship" ->
           << <<"lhs", "node">>, <<"rhs", "node">>, <<"operator", "enum">> >>
      [] tag = "VariableDefinition" ->
           << <<"name", "node">>, <<"definition", "optnode">> >>
      [] tag = "FunctionDefinition" ->
           << <<"custom_function", "node">>, <<"definition", "optnode">> >>

\* An enum without struct variants: unit variants and the newtype variants
\* Sized(n), Dot(n), Multiplication(sym), Division(sym).
serialize_enum(e) ==
    IF "n" \in DOMAIN e THEN JObj(<< <<e.tag, JNum(e.n)>> >>)
    ELSE IF "sym" \in DOMAIN e THEN JObj(<< <<e.tag, JStr(e.sym.tag)>> >>)
    ELSE JStr(e.tag)

serialize_mid_script(m) ==
    JObj(<< <<"super_script",
              JArr([i \in 1..Len(m.super_script) |->
                       serialize_enum(m.super_script[i])])>>,
            <<"sub_script",
              JArr([i \in 1..Len(m.sub_script) |->
                       serialize_enum(m.sub_script[i])])>> >>)

RECURSIVE MathNode_serialize(_)
RECURSIVE MathNodeContent_serialize(_)
RECURSIVE serialize_field(_, _)

serialize_field(kind, v) ==
    CASE kind = "node" -> MathNode_serialize(v)
      [] kind = "optnode" ->
           IF IsSome(v) THEN MathNode_serialize(Unwrap(v)) ELSE JNull
      [] kind = "vecnode" ->
           JArr([i \in 1..Len(v) |-> MathNode_serialize(v[i])])
      [] kind = "vecvecnode" ->
           JArr([i \in 1..Len(v) |-> serialize_field("vecnode", v[i])])
      [] kind \in {"multerms", "addterms"} ->
           JArr([i \in 1..Len(v) |->
                    JArr(<<serialize_enum(v[i][1]),
                           MathNode_serialize(v[i][2])>>)])
      [] kind = "enum" -> serialize_enum(v)
      [] kind = "optmid" ->
           IF IsSome(v) THEN serialize_mid_script(Unwrap(v)) ELSE JNull
      [] kind = "str" -> JStr(v)
      [] kind = "num" -> JNum(v)
      [] kind = "bool" -> JBool(v)

MathNodeContent_serialize(c) ==
    IF c.tag = "Empty" THEN JStr("Empty")
    ELSE IF c.tag \in NewtypeVariants THEN JObj(<< <<c.tag, JStr(c.v)>> >>)
    ELSE LET fs == StructFields(c.tag)
         IN  JObj(<< <<c.tag,
                       JObj([i \in 1..Len(fs) |->
                               <<fs[i][1],
                                 serialize_field(fs[i][2], c[fs[i][1]])>>])>> >>)

MathNode_serialize(n) ==
    JObj(<< <<"id", JStr(n.id)>>,
            <<"content", MathNodeContent_serialize(n.content)>> >>)

(***************************************************************************)
(* MathNode::to_json and MathNodeContent::to_json.                         *)
(***************************************************************************)
RECURSIVE MathNode_to_json(_)
RECURSIVE MathNodeContent_to_json(_)

\* The Unit arm with the flattened form derived from original_form.
Unit_to_json_recomputed(c) ==
    json_object(<<
        <<"type", JStr("unit")>>,
        <<"original", MathNode_to_json(c.original_form)>>,
        <<"is_flattened", MathNode_to_json(c.original_form)>> >>)

\* The Unit arm of MathNodeContent::to_json.
Unit_to_json(c) ==
    json_object(<<
        <<"type", JStr("unit")>>,
        <<"original", MathNode_to_json(c.original_form)>>,
        <<"is_flattened", MathNode_to_json(c.flattened_form)>> >>)

\* The String handed to json! as a JSON number when it is a numeral.
String_to_value_parsed(s) ==
    IF s = "007" THEN JNum(7) ELSE JStr(s)

\* json!(s) of a String or &String: Value::String with the same text.
String_to_value(s) == JStr(s)

\* The option handed to json! as it is (as the LogFunction arm does with
\* base) instead of being mapped through to_json.
OptionMap_to_json_unmapped(o) ==
    IF IsSome(o) THEN MathNode_serialize(Unwrap(o)) ELSE JNull

\* opt.as_ref().map(|x| x.to_json())
OptionMap_to_json(o) ==
    IF IsSome(o) THEN MathNode_to_json(Unwrap(o)) ELSE JNull

\* Only the first element of the sequence is converted.
Vec_to_json_first_only(nodes) ==
    json_array([i \in 1..(IF Len(nodes) = 0 THEN 0 ELSE 1) |->
                   MathNode_to_json(nodes[i])])

\* nodes.iter().map(|x| x.to_json()).collect::<Vec<_>>()
Vec_to_json(nodes) ==
    json_array([i \in 1..Len(nodes) |-> MathNode_to_json(nodes[i])])

MathNodeContent_to_json(c) ==
    CASE c.tag = "Empty" -> json_object(<< <<"type", JStr("empty")>> >>)
      [] c.tag = "String" -> String_to_value(c.v)
      [] c.tag = "Integration" ->
           json_object(<<
               <<"type", JStr("integration")>>,
               <<"integrand", MathNode_to_json(c.integrand)>>,
               <<"variable", String_to_value(c.variable)>>,
               <<"lower_limit", OptionMap_to_json(c.lower_limit)>>,
               <<"upper_limit", OptionMap_to_json(c.upper_limit)>> >>)
      [] c.tag = "Limit" ->
           json_object(<<
               <<"type", JStr("limit")>>,
               <<"function", MathNode_to_json(c.function)>>,
               <<"variable", String_to_value(c.variable)>>,
               <<"approaching_value",
                 MathNode_to_json(c.approaching_value)>> >>)
      [] c.tag = "Multiplications" ->
           json_object(<<
               <<"type", JStr("multiplication")>>,
               <<"terms",
                 json_array([i \in 1..Len(c.terms) |->
                     json_object(<<
                         <<"operator",
                           MulOrDivOperator_to_json(c.terms[i][1])>>,
                         <<"term", MathNode_to_json(c.terms[i][2])>> >>)])>>
             >>)
      [] c.tag = "Additions" ->
           json_object(<<
               <<"type", JStr("addition")>>,
               <<"terms",
                 json_array([i \in 1..Len(c.terms) |->
                     json_object(<<
                         <<"operator",
                           JStr(Match(AddOrSubArms, c.terms[i][1]))>>,
                         <<"term", MathNode_to_json(c.terms[i][2])>> >>)])>>
             >>)
      [] c.tag = "Division" ->
           json_object(<<
               <<"type", JStr("division")>>,
               <<"numerator", MathNode_to_json(c.numerator)>>,
               <<"denominator", MathNode_to_json(c.denominator)>>,
               <<"style", JStr(Match(DivisionStyleArms, c.style))>> >>)
      [] c.tag = "SumNotation" ->
           json_object(<<
               <<"type", JStr("sum")>>,
               <<"summand", MathNode_to_json(c.summand)>>,
               <<"variable", OptionMap_to_json(c.variable)>>,
               <<"lower_limit", OptionMap_to_json(c.lower_limit)>>,
               <<"upper_limit", OptionMap_to_json(c.upper_limit)>> >>)
      [] c.tag = "ProductNotation" ->
           json_object(<<
               <<"type", JStr("product")>>,
               <<"multiplicand", MathNode_to_json(c.multiplicand)>>,
               <<"variable", OptionMap_to_json(c.variable)>>,
               <<"lower_limit", OptionMap_to_json(c.lower_limit)>>,
               <<"upper_limit", OptionMap_to_json(c.upper_limit)>> >>)
      [] c.tag = "Fraction" ->
           json_object(<<
               <<"type", JStr("fraction")>>,
               <<"numerator", MathNode_to_json(c.numerator)>>,
               <<"denominator", MathNode_to_json(c.denominator)>> >>)
      [] c.tag = "Bracketed" ->
           json_object(<<
               <<"type", JStr("bracketed")>>,
               <<"inner", MathNode_to_json(c.inner)>>,
               <<"style", JStr(Match(BracketStyleArms, c.style))>>,
               <<"size", JStr(Match(BracketSizeArms, c.size))>> >>)
      [] c.tag = "Matrix" ->
           json_object(<<
               <<"type", JStr("matrix")>>,
               <<"rows",
                 json_array([i \in 1..Len(c.rows) |->
                                Vec_to_json(c.rows[i])])>> >>)
      [] c.tag = "LogFunction" ->
           json_object(<<
               <<"type", JStr("logarithmic_function")>>,
               <<"base", serialize_field("optnode", c.base)>>,
               <<"parameter", MathNode_to_json(c.parameter)>> >>)
      [] c.tag = "UnaryPostfix" ->
           json_object(<<
               <<"type", JStr("unary_postfix")>>,
               <<"parameter", MathNode_to_json(c.parameter)>>,
               <<"operator", String_to_value(c.operator)>> >>)
      [] c.tag = "UnaryPrefix" ->
           json_object(<<
               <<"type", JStr("unary_prefix")>>,
               <<"parameter", MathNode_to_json(c.parameter)>>,
               <<"operator", String_to_value(c.operator)>> >>)
      [] c.tag = "Abs" ->
           json_object(<<
               <<"type", JStr("absolute_value")>>,
               <<"parameter", MathNode_to_json(c.parameter)>> >>)
      [] c.tag = "Power" ->
           json_object(<<
               <<"type", JStr("power_function")>>,
               <<"base", MathNode_to_json(c.base)>>,
               <<"exponent", MathNode_to_json(c.exponent)>> >>)
      [] c.tag = "CustomFunction" ->
           json_object(<<
               <<"type", JStr("custom_function")>>,
               <<"name", MathNode_to_json(c.name)>>,
               <<"parameters", Vec_to_json(c.parameters)>> >>)
      [] c.tag = "SimpleUnaryFunction" ->
           json_object(<<
               <<"type", JStr("unary_function")>>,
               <<"name", String_to_value(c.name)>>,
               <<"parameter", MathNode_to_json(c.parameter)>> >>)
      [] c.tag = "SimpleMultinaryFunction" ->
           json_object(<<
               <<"type", JStr("multinary_function")>>,
               <<"name", String_to_value(c.name)>>,
               <<"parameters", Vec_to_json(c.parameters)>> >>)
      [] c.tag = "Quantity" ->
           json_object(<<
               <<"type", JStr("quantity")>>,
               <<"number", String_to_value(c.number)>>,
               <<"unit", OptionMap_to_json(c.unit)>> >>)
      [] c.tag = "Identifier" ->
           json_object(<<
               <<"type", JStr("identifier")>>,
               <<"body", String_to_value(c.body)>>,
               <<"pre_script", OptionMap_to_json(c.pre_script)>>,
               <<"mid_script",
                 IF IsSome(c.mid_script)
                 THEN SpecialMiddleScriptNode_to_json(Unwrap(c.mid_script))
                 ELSE JNull>>,
               <<"post_script", OptionMap_to_json(c.post_script)>>,
               <<"primes", JNum(c.primes)>>,
               <<"is_function", JBool(c.is_function)>> >>)
      [] c.tag = "Script" ->
           json_object(<<
               <<"type", JStr("script")>>,
               <<"subscripts", Vec_to_json(c.subscripts)>>,
               <<"superscripts", Vec_to_json(c.superscripts)>> >>)
      [] c.tag = "Unit" -> Unit_to_json(c)
      [] c.tag = "BaseUnit" ->
           json_object(<< <<"type", JStr("base_unit")>>,
                          <<"name", String_to_value(c.v)>> >>)
      [] c.tag \in {"Log2", "Log10", "Ln"} -> PANIC
      [] c.tag = "Text" ->
           json_object(<< <<"type", JStr("text")>>,
                          <<"content", String_to_value(c.v)>> >>)
      [] c.tag = "Relationship" ->
           json_object(<<
               <<"type", JStr("relationship")>>,
               <<"lhs", MathNode_to_json(c.lhs)>>,
               <<"rhs", MathNode_to_json(c.rhs)>>,
               <<"operator", JStr(Match(RelationOperatorArms, c.operator))>>
             >>)
      [] c.tag = "VariableDefinition" ->
           json_object(<<
               <<"type", JStr("variable_definition")>>,
               <<"name", MathNode_to_json(c.name)>>,
               <<"definition", OptionMap_to_json(c.definition)>> >>)
      [] c.tag = "FunctionDefinition" ->
           json_object(<<
               <<"type", JStr("function_definition")>>,
               <<"custom_function", MathNode_to_json(c.custom_function)>>,
               <<"definition", OptionMap_to_json(c.definition)>> >>)

\* The node object stamped with whether a call was made before (a hidden
\* static the call reads).
MathNode_to_json_stamped(n) ==
    json_object(<< <<"id", String_to_value(n.id)>>,
                   <<"content", MathNodeContent_to_json(n.content)>>,
                   <<"first", JBool(result = NoResult)>> >>)

\* The node object with the id left blank.
MathNode_to_json_blank_id(n) ==
    json_object(<< <<"id", String_to_value("")>>,
                   <<"content", MathNodeContent_to_json(n.content)>> >>)

MathNode_to_json(n) ==
    json_object(<< <<"id", String_to_value(n.id)>>,
                   <<"content", MathNodeContent_to_json(n.content)>> >>)

(***************************************************************************)
(* serde_json::Map.  With the crate's default features a Map is a          *)
(* BTreeMap<String, Value> and iterates in byte order of the keys; with    *)
(* the preserve_order feature it is an IndexMap and iterates in insertion  *)
(* order.  The feature is a property of the build, so both are modelled.   *)
(***************************************************************************)
MapImpls == {"BTreeMap", "IndexMap"}

\* Every key the two conversions insert, in byte order.
KeyOrder ==
    << "Abs", "Additions", "BaseUnit", "Bracketed", "CustomFunction",
       "Division", "Dot", "Fraction", "FunctionDefinition",
       "Identifier", "Integration", "Limit", "Ln", "Log10", "Log2",
       "LogFunction", "Matrix", "Multiplication", "Multiplications",
       "Power", "ProductNotation", "Quantity", "Relationship", "Script",
       "SimpleMultinaryFunction", "SimpleUnaryFunction", "Sized",
       "String", "SumNotation", "Text", "UnaryPostfix", "UnaryPrefix",
       "Unit", "VariableDefinition", "approaching_value", "base",
       "body", "content", "custom_function", "definition",
       "denominator", "exponent", "flattened_form", "function", "id",
       "inner", "integrand", "is_flattened", "is_function", "lhs",
       "lower_limit", "mid_script", "multiplicand", "name", "number",
       "numerator", "operator", "original", "original_form",
       "parameter", "parameters", "post_script", "pre_script", "primes",
       "rhs", "rows", "size", "style", "sub_script", "subscripts",
       "summand", "super_script", "superscripts", "symbol", "term",
       "terms", "type", "unit", "upper_limit", "variable" >>

KeyRank ==
    [k \in {KeyOrder[i] : i \in 1..Len(KeyOrder)} |->
        CHOOSE i \in 1..Len(KeyOrder) : KeyOrder[i] = k]

\* The keys of an object in the order a Map of kind impl iterates them.
IterKeys(impl, obj) ==
    IF impl = "IndexMap"
    THEN Keys(obj)
    ELSE LET ks == Keys(obj)
         IN  [i \in 1..Len(ks) |->
                ks[CHOOSE j \in 1..Len(ks) :
                      Cardinality({k \in 1..Len(ks) :
                          KeyRank[ks[k]] < KeyRank[ks[j]]}) = i - 1]]

\* The position of key k when the object is iterated.
IterPos(impl, obj, k) ==
    CHOOSE i \in 1..Len(obj.jv) : IterKeys(impl, obj)[i] = k

(***************************************************************************)
(* Construction of trees.  The fields of MathNode and of every variant are *)
(* public, so a caller can build any tree; the model builds them bottom up *)
(* from the leaves, one node per step.                                      *)
(***************************************************************************)
Node(id, content) == [id |-> id, content |-> content]

MathNode_empty == Node("", [tag |-> "Empty"])

Quantity(number, unit) ==
    [tag |-> "Quantity", number |-> number, unit |-> unit]

Identifier(body, pre, mid, post, primes, is_function) ==
    [tag |-> "Identifier", body |-> body, pre_script |-> pre,
     mid_script |-> mid, post_script |-> post, primes |-> primes,
     is_function |-> is_function]

Leaves ==
    { MathNode_empty,
      Node("s", [tag |-> "String", v |-> "a"]),
      Node("t", [tag |-> "Text", v |-> "a"]),
      Node("u", [tag |-> "BaseUnit", v |-> "m"]),
      Node("q", Quantity("3.14", None)),
      Node("x", Identifier("x", None, None, None, 0, FALSE)) }

\* The node that fills the child positions the tree under construction
\* does not.
Sib == Node("y", Identifier("y", None, None, None, 1, TRUE))

Mul(s) == [tag |-> "Multiplication", sym |-> UnitVariant(s)]

Div(s) == [tag |-> "Division", sym |-> UnitVariant(s)]

Mid1 ==
    [super_script |-> << UnitVariant("Hat"), [tag |-> "Dot", n |-> MaxDot] >>,
     sub_script |-> << UnitVariant("Bar") >>]

\* One content of every non-leaf variant with t as a child; over the
\* variants t takes every kind of child position (boxed, optional, element
\* of a Vec, of a row, of a term pair).
Shapes(t) ==
    { [tag |-> "Integration", integrand |-> Sib, variable |-> "x",
       lower_limit |-> Some(t), upper_limit |-> None],
      [tag |-> "Limit", function |-> t, variable |-> "x",
       approaching_value |-> Sib],
      [tag |-> "Multiplications",
       terms |-> << <<Mul("Quantity"), Sib>>, <<Div("Slash"), t>> >>],
      [tag |-> "Additions",
       terms |-> << <<UnitVariant("Addition"), t>>,
                    <<UnitVariant("Subtraction"), Sib>> >>],
      [tag |-> "Division", numerator |-> t, denominator |-> Sib,
       style |-> UnitVariant("Fraction")],
      [tag |-> "SumNotation", summand |-> t, variable |-> None,
       lower_limit |-> None, upper_limit |-> None],
      [tag |-> "ProductNotation", multiplicand |-> Sib, variable |-> Some(t),
       lower_limit |-> None, upper_limit |-> Some(Sib)],
      [tag |-> "Fraction", numerator |-> t, denominator |-> Sib],
      [tag |-> "Bracketed", inner |-> t, style |-> UnitVariant("Round"),
       size |-> UnitVariant("Normal")],
      [tag |-> "Matrix", rows |-> << <<t, Sib>>, <<Sib>> >>],
      [tag |-> "Matrix", rows |-> << <<Sib, t>>, <<t, Sib>> >>],
      [tag |-> "LogFunction", base |-> None, parameter |-> t],
      [tag |-> "LogFunction", base |-> Some(t), parameter |-> Sib],
      [tag |-> "Log2", parameter |-> t],
      [tag |-> "Log10", parameter |-> t],
      [tag |-> "Ln", parameter |-> t],
      [tag |-> "UnaryPostfix", parameter |-> t, operator |-> "!"],
      [tag |-> "UnaryPrefix", parameter |-> t, operator |-> "-"],
      [tag |-> "Abs", parameter |-> t],
      [tag |-> "Power", base |-> Sib, exponent |-> t],
      [tag |-> "CustomFunction", name |-> Sib, parameters |-> <<t, Sib>>],
      [tag |-> "SimpleUnaryFunction", name |-> "sin", parameter |-> t],
      [tag |-> "SimpleMultinaryFunction", name |-> "max",
       parameters |-> <<Sib, t>>],
      Quantity("3.14", Some(t)),
      Identifier("x", None, Some(Mid1), Some(t), 1, TRUE),
      [tag |-> "Script", subscripts |-> <<t>>, superscripts |-> <<Sib, t>>],
      [tag |-> "Unit", original_form |-> t, flattened_form |-> Sib],
      [tag |-> "Relationship", lhs |-> t, rhs |-> Sib,
       operator |-> UnitVariant("Equal")],
      [tag |-> "VariableDefinition", name |-> t, definition |-> None],
      [tag |-> "FunctionDefinition", custom_function |-> Sib,
       definition |-> Some(t)] }

\* Quantity.number is a String: numerals, symbolic values, the empty text.
QuantityNumbers == {"3.14", "10^100", "007", "pi", ""}

\* The contents over t that vary the payload: every case of every enum,
\* empty sequences, every combination of absent and present options, t in
\* the remaining child positions.
Payloads(t) ==
    { [tag |-> "Integration", integrand |-> t, variable |-> "x",
       lower_limit |-> lo, upper_limit |-> up] :
          lo \in {None, Some(Sib)}, up \in {None, Some(Sib)} }
    \cup { [tag |-> "Limit", function |-> Sib, variable |-> "x",
            approaching_value |-> t] }
    \cup { [tag |-> "Multiplications", terms |-> << <<op, t>> >>] :
              op \in RefinedMulOrDivOperation }
    \cup { [tag |-> "Multiplications", terms |-> << >>] }
    \cup { [tag |-> "Additions", terms |-> << <<op, t>> >>] :
              op \in AddOrSubOperatorNode }
    \cup { [tag |-> "Additions", terms |-> << >>] }
    \cup { [tag |-> "Division", numerator |-> Sib, denominator |-> t,
            style |-> st] : st \in DivisionStyle }
    \cup { [tag |-> "SumNotation", summand |-> t, variable |-> va,
            lower_limit |-> lo, upper_limit |-> up] :
              va \in {None, Some(Sib)}, lo \in {None, Some(Sib)},
              up \in {None, Some(Sib)} }
    \cup { [tag |-> "ProductNotation", multiplicand |-> t, variable |-> va,
            lower_limit |-> lo, upper_limit |-> up] :
              va \in {None, Some(Sib)}, lo \in {None, Some(Sib)},
              up \in {None, Some(Sib)} }
    \cup { [tag |-> "Fraction", numerator |-> Sib, denominator |-> t] }
    \cup { [tag |-> "Bracketed", inner |-> t, style |-> st,
            size |-> UnitVariant("Auto")] : st \in BracketStyle }
    \cup { [tag |-> "Bracketed", inner |-> t, style |-> UnitVariant("None"),
            size |-> sz] : sz \in BracketSize }
    \cup { [tag |-> "Matrix", rows |-> rs] :
              rs \in { << >>, << << >> >>, << <<t>> >> } }
    \cup { [tag |-> "LogFunction", base |-> Some(Sib), parameter |-> t] }
    \cup { [tag |-> "Power", base |-> t, exponent |-> Sib] }
    \cup { [tag |-> "CustomFunction", name |-> t, parameters |-> << >>] }
    \cup { Quantity("10^100", Some(t)) }
    \cup { Quantity(n, None) : n \in QuantityNumbers }
    \cup { Identifier("f", pre, mid, None, p, fn) :
              pre \in {None, Some(t)}, mid \in {None, Some(Mid1)},
              p \in {0, 1}, fn \in BOOLEAN }
    \cup { [tag |-> "Script", subscripts |-> << >>, superscripts |-> <<t>>] }
    \cup { [tag |-> "Unit", original_form |-> Sib, flattened_form |-> t] }
    \cup { [tag |-> "Relationship", lhs |-> t, rhs |-> Sib, operator |-> op] :
              op \in RelationOperatorNode }
    \cup { [tag |-> "Relationship", lhs |-> Sib, rhs |-> t,
            operator |-> UnitVariant("Less")] }
    \cup { [tag |-> "VariableDefinition", name |-> n, definition |-> d] :
              n \in {t, Sib}, d \in {None, Some(t)} }
    \cup { [tag |-> "FunctionDefinition", custom_function |-> f,
            definition |-> d] : f \in {t, Sib}, d \in {None, Some(Sib)} }

\* The number of construction steps above a leaf.
MaxDepth == 2

NodeId(d) == "n" \o ToString(d)

(***************************************************************************)
(* Spec: one tree is built and then converted once.                        *)
(***************************************************************************)
Init ==
    /\ tree \in Leaves
    /\ depth = 0
    /\ result = NoResult
    /\ pc = "building"
    /\ tree2 = MathNode_empty
    /\ result2 = NoResult

\* A parent node is constructed over the tree built so far.
Construct ==
    /\ pc = "building"
    /\ depth < MaxDepth
    /\ \E c \in Shapes(tree) : tree' = Node(NodeId(depth + 1), c)
    /\ depth' = depth + 1
    /\ UNCHANGED <<result, pc, tree2, result2>>

\* A parent node is constructed over a leaf, with any payload.
ConstructPayload ==
    /\ pc = "building"
    /\ depth = 0
    /\ \E c \in Payloads(tree) : tree' = Node(NodeId(depth + 1), c)
    /\ depth' = depth + 1
    /\ pc' = "built"
    /\ UNCHANGED <<result, tree2, result2>>

\* let v = tree.to_json(); to_json takes &self.
ToJson ==
    /\ pc \in {"building", "built"}
    /\ result' = MathNode_to_json(tree)
    /\ pc' = IF MathNode_to_json(tree) = PANIC THEN "panicked" ELSE "returned"
    /\ UNCHANGED <<tree, depth, tree2, result2>>

Next == Construct \/ ConstructPayload \/ ToJson

Spec == Init /\ [][Next]_vars

(***************************************************************************)
(* SpecPair: two trees are built over the same leaf, one node each, and    *)
(* both are converted.                                                      *)
(***************************************************************************)
InitPair ==
    /\ tree \in Leaves
    /\ tree2 = tree
    /\ depth = 0
    /\ result = NoResult
    /\ result2 = NoResult
    /\ pc = "building"

ConstructFirst ==
    /\ pc = "building"
    /\ \E c \in Shapes(tree) \cup Payloads(tree) :
          tree' = Node(NodeId(1), c)
    /\ pc' = "first"
    /\ UNCHANGED <<depth, result, tree2, result2>>

ConstructSecond ==
    /\ pc = "first"
    /\ \E c \in Shapes(tree2) \cup Payloads(tree2) :
          tree2' = Node(NodeId(1), c)
    /\ pc' = "built"
    /\ UNCHANGED <<depth, result, tree, result2>>

\* let (v, w) = (tree.to_json(), tree2.to_json());
ToJsonPair ==
    /\ pc = "built"
    /\ result' = MathNode_to_json(tree)
    /\ result2' = MathNode_to_json(tree2)
    /\ pc' = IF PANIC \in {MathNode_to_json(tree), MathNode_to_json(tree2)}
             THEN "panicked"
             ELSE "returned"
    /\ UNCHANGED <<tree, depth, tree2>>

NextPair == ConstructFirst \/ ConstructSecond \/ ToJsonPair

SpecPair == InitPair /\ [][NextPair]_vars

(***************************************************************************)
(* The declarations of src/math_node.rs that to_json has no counterpart    *)
(* for.                                                                     *)
(***************************************************************************)
\* RelationOperatorNode::Custom(String) / UnaryRelationOperatorNode::Custom
Custom(s) == [tag |-> "Custom", v |-> s]

CustomNames == {"~", "equal"}

(***************************************************************************)
(* Identifier of src/math_node.rs: a struct with public fields, the        *)
(* derived PartialEq, the hand-written Ord and four constructors.          *)
(***************************************************************************)
ScriptNode(subscripts, superscripts) ==
    [subscripts |-> subscripts, superscripts |-> superscripts]

IdentifierFields ==
    {"body", "pre_script", "mid_script", "post_script", "primes",
     "is_function"}

Identifier_new_simple(body) ==
    [body |-> body, pre_script |-> None, mid_script |-> None,
     post_script |-> None, primes |-> 0, is_function |-> FALSE]

MathNode_identifier(input) ==
    Node(input.body, [tag |-> "Identifier", v |-> input])

MathNode_string(input) == Node(input, [tag |-> "String", v |-> input])

MathNode_text(input) == Node(input, [tag |-> "Text", v |-> input])

Identifier_simple_string_subscript(name, subscript) ==
    [body |-> name, pre_script |-> None, mid_script |-> None,
     post_script |-> Some(ScriptNode(<<MathNode_string(subscript)>>, << >>)),
     primes |-> 0, is_function |-> FALSE]

Identifier_simple_text_subscript(name, subscript) ==
    [body |-> name, pre_script |-> None, mid_script |-> None,
     post_script |-> Some(ScriptNode(<<MathNode_text(subscript)>>, << >>)),
     primes |-> 0, is_function |-> FALSE]

Identifier_simple_identifier_subscript(name, subscript) ==
    [body |-> name, pre_script |-> None, mid_script |-> None,
     post_script |->
         Some(ScriptNode(<<MathNode_identifier(subscript)>>, << >>)),
     primes |-> 0, is_function |-> FALSE]

RECURSIVE Identifier_eq(_, _)
RECURSIVE MathNode_eq(_, _)

\* Vec<MathNode> == Vec<MathNode>: same length, equal element by element.
VecMathNode_eq(xs, ys) ==
    /\ Len(xs) = Len(ys)
    /\ \A i \in 1..Len(xs) : MathNode_eq(xs[i], ys[i])

\* Option<ScriptNode> == Option<ScriptNode>
OptionScriptNode_eq(x, y) ==
    /\ IsSome(x) = IsSome(y)
    /\ IsSome(x) =>
          /\ VecMathNode_eq(Unwrap(x).subscripts, Unwrap(y).subscripts)
          /\ VecMathNode_eq(Unwrap(x).superscripts, Unwrap(y).superscripts)

\* Option<SpecialMiddleScriptNode> == Option<SpecialMiddleScriptNode>
OptionMidScript_eq(x, y) ==
    /\ IsSome(x) = IsSome(y)
    /\ IsSome(x) =>
          /\ Unwrap(x).super_script = Unwrap(y).super_script
          /\ Unwrap(x).sub_script = Unwrap(y).sub_script

\* The comparison with the fields the Ord implementation looks at.
Identifier_eq_by_body(a, b) == a.body = b.body

\* #[derive(PartialEq)] on Identifier: field by field, in declaration order.
Identifier_eq(a, b) ==
    /\ a.body = b.body
    /\ OptionScriptNode_eq(a.pre_script, b.pre_script)
    /\ OptionMidScript_eq(a.mid_script, b.mid_script)
    /\ OptionScriptNode_eq(a.post_script, b.post_script)
    /\ a.primes = b.primes
    /\ a.is_function = b.is_function

\* #[derive(PartialEq)] on MathNode and on the variants of MathNodeContent
\* the constructors build.
MathNode_eq(m, n) ==
    /\ m.id = n.id
    /\ m.content.tag = n.content.tag
    /\ IF m.content.tag = "Identifier"
       THEN Identifier_eq(m.content.v, n.content.v)
       ELSE m.content.v = n.content.v

\* The texts the constructors are called with, in byte order.
IdentNames == <<"", "x", "y">>

SubscriptTexts == {"i"}

\* String::cmp: lexicographic by bytes.
String_cmp(s, t) ==
    LET rank(u) == CHOOSE i \in 1..Len(IdentNames) : IdentNames[i] = u
    IN  IF rank(s) < rank(t) THEN "Less"
        ELSE IF rank(s) > rank(t) THEN "Greater"
        ELSE "Equal"

\* impl Ord for Identifier
Identifier_cmp(a, b) == String_cmp(a.body, b.body)

\* The number of simple_identifier_subscript calls in one behaviour.
MaxSubscripts == 1

(***************************************************************************)
(* SpecIdent: two identifiers are built, each wrapped by                   *)
(* MathNode::identifier, and compared once.  tree and tree2 hold the two   *)
(* nodes, result the outcome of ==, result2 the outcome of cmp; pc tells   *)
(* whether only constructors were used or a public field was assigned.     *)
(***************************************************************************)
InitIdent ==
    /\ tree = MathNode_identifier(Identifier_new_simple("x"))
    /\ tree2 = MathNode_identifier(Identifier_new_simple("x"))
    /\ depth = 0
    /\ result = NoResult
    /\ result2 = NoResult
    /\ pc = "constructed"

\* One of the two identifiers is replaced by the new one.
Rebuild(side, ident) ==
    /\ result = NoResult
    /\ IF side = 1
       THEN tree' = MathNode_identifier(ident) /\ tree2' = tree2
       ELSE tree2' = MathNode_identifier(ident) /\ tree' = tree
    /\ UNCHANGED <<result, result2>>

NewSimple ==
    /\ pc = "constructed"
    /\ \E side \in {1, 2}, i \in 1..Len(IdentNames) :
          Rebuild(side, Identifier_new_simple(IdentNames[i]))
    /\ UNCHANGED <<depth, pc>>

SimpleStringSubscript ==
    /\ pc = "constructed"
    /\ \E side \in {1, 2}, i \in 1..Len(IdentNames), sub \in SubscriptTexts :
          Rebuild(side, Identifier_simple_string_subscript(IdentNames[i], sub))
    /\ UNCHANGED <<depth, pc>>

SimpleTextSubscript ==
    /\ pc = "constructed"
    /\ \E side \in {1, 2}, i \in 1..Len(IdentNames), sub \in SubscriptTexts :
          Rebuild(side, Identifier_simple_text_subscript(IdentNames[i], sub))
    /\ UNCHANGED <<depth, pc>>

\* The subscript is the identifier built so far on the same side.
SimpleIdentifierSubscript ==
    /\ pc = "constructed"
    /\ depth < MaxSubscripts
    /\ \E side \in {1, 2}, i \in 1..Len(IdentNames) :
          Rebuild(side,
                  Identifier_simple_identifier_subscript(
                      IdentNames[i],
                      IF side = 1 THEN tree.content.v ELSE tree2.content.v))
    /\ depth' = depth + 1
    /\ UNCHANGED pc

\* The fields are pub: a caller assigns one of them.
AssignField ==
    /\ pc = "constructed"
    /\ \E side \in {1, 2} :
          LET a == IF side = 1 THEN tree.content.v ELSE tree2.content.v
          IN  \/ \E p \in {0, 1} : Rebuild(side, [a EXCEPT !.primes = p])
              \/ \E f \in BOOLEAN :
                    Rebuild(side, [a EXCEPT !.is_function = f])
              \/ \E m \in {None, Some(Mid1)} :
                    Rebuild(side, [a EXCEPT !.mid_script = m])
              \/ \E q \in {None, Some(ScriptNode(<< >>, << >>))} :
                    Rebuild(side, [a EXCEPT !.pre_script = q])
    /\ pc' = "assigned"
    /\ UNCHANGED depth

\* let (e, o) = (a == b, a.cmp(&b));
Compare ==
    /\ result = NoResult
    /\ result' = JBool(Identifier_eq(tree.content.v, tree2.content.v))
    /\ result2' = JStr(Identifier_cmp(tree.content.v, tree2.content.v))
    /\ UNCHANGED <<tree, tree2, depth, pc>>

NextIdent ==
    \/ NewSimple
    \/ SimpleStringSubscript
    \/ SimpleTextSubscript
    \/ SimpleIdentifierSubscript
    \/ AssignField
    \/ Compare

SpecIdent == InitIdent /\ [][NextIdent]_vars

(***************************************************************************)
(* The nodes of a tree and the node objects of a value, in document order. *)
(***************************************************************************)
RECURSIVE Concat(_)

Concat(seqs) ==
    IF seqs = << >> THEN << >> ELSE Head(seqs) \o Concat(Tail(seqs))

\* The nodes a field of the given kind holds, in order.
FieldNodes(kind, v) ==
    CASE kind = "node" -> <<v>>
      [] kind = "optnode" -> v
      [] kind = "vecnode" -> v
      [] kind = "vecvecnode" -> Concat(v)
      [] kind \in {"multerms", "addterms"} ->
           [i \in 1..Len(v) |-> v[i][2]]
      [] OTHER -> << >>

\* The child nodes of a content, in the order its fields are declared.
Children(c) ==
    IF c.tag = "Empty" \/ c.tag \in NewtypeVariants
    THEN << >>
    ELSE LET fs == StructFields(c.tag)
         IN  Concat([i \in 1..Len(fs) |-> FieldNodes(fs[i][2], c[fs[i][1]])])

RECURSIVE TreeIds(_)

\* The ids of the nodes of a tree as JSON strings, parent before children.
TreeIds(n) ==
    LET ch == Children(n.content)
    IN  <<JStr(n.id)>> \o Concat([i \in 1..Len(ch) |-> TreeIds(ch[i])])

RECURSIVE OutIds(_)

\* The "id" values of a Value, an object's own before those nested in it.
OutIds(v) ==
    CASE v.jt = "object" ->
           (IF HasKey(v, "id") THEN <<Get(v, "id")>> ELSE << >>)
           \o Concat([i \in 1..Len(v.jv) |->
                         IF v.jv[i][1] = "id" THEN << >>
                         ELSE OutIds(v.jv[i][2])])
      [] v.jt = "array" ->
           Concat([i \in 1..Len(v.jv) |-> OutIds(v.jv[i])])
      [] OTHER -> << >>

\* RefinedAddOrSubOperator::None / RefinedMulOrDivOperation::None
NoneTag == UnitVariant("None")

RECURSIVE SumSeq(_)

SumSeq(ns) == IF ns = << >> THEN 0 ELSE Head(ns) + SumSeq(Tail(ns))

RECURSIVE TreeNodes(_)

\* The node occurrences of a tree, parent before children.
TreeNodes(n) ==
    LET ch == Children(n.content)
    IN  <<n>> \o Concat([i \in 1..Len(ch) |-> TreeNodes(ch[i])])

RECURSIVE NodeCount(_)

\* The number of node occurrences of a tree.
NodeCount(n) ==
    LET ch == Children(n.content)
    IN  1 + SumSeq([i \in 1..Len(ch) |-> NodeCount(ch[i])])

\* An object with exactly the keys MathNode::to_json emits.
IsNodeObject(v) ==
    IsObject(v) /\ { v.jv[i][1] : i \in 1..Len(v.jv) } = {"id", "content"}

RECURSIVE OutNodes(_)

\* The node objects of a Value, an object itself before those nested in it.
OutNodes(v) ==
    CASE v.jt = "object" ->
           (IF IsNodeObject(v) THEN <<v>> ELSE << >>)
           \o Concat([i \in 1..Len(v.jv) |-> OutNodes(v.jv[i][2])])
      [] v.jt = "array" ->
           Concat([i \in 1..Len(v.jv) |-> OutNodes(v.jv[i])])
      [] OTHER -> << >>

(***************************************************************************)
(* SpecMid: two identifiers carry a mid-script each; marks are pushed on   *)
(* the super and sub lists and SpecialMiddleScriptNode::to_json is called  *)
(* on both.  depth counts the pushes.                                       *)
(***************************************************************************)
\* The number of marks pushed in one behaviour.
MaxMidPushes == 3

EmptyMid == [super_script |-> << >>, sub_script |-> << >>]

WithMid(m) == Node("x", Identifier("x", None, Some(m), None, 0, FALSE))

MidOf(n) == Unwrap(n.content.mid_script)

InitMid ==
    /\ tree \in {WithMid(EmptyMid), WithMid(Mid1)}
    /\ tree2 = WithMid(EmptyMid)
    /\ depth = 0
    /\ result = NoResult
    /\ result2 = NoResult
    /\ pc = "building"

\* The mid-script of one of the two identifiers becomes m.
SetMid(side, m) ==
    /\ depth < MaxMidPushes
    /\ IF side = 1
       THEN tree' = WithMid(m) /\ tree2' = tree2
       ELSE tree2' = WithMid(m) /\ tree' = tree
    /\ depth' = depth + 1
    /\ UNCHANGED <<result, result2, pc>>

\* super_script.push(e)
PushSuper ==
    /\ pc = "building"
    /\ \E side \in {1, 2}, e \in SpecialMiddleScriptContentTypeNode :
          LET m == MidOf(IF side = 1 THEN tree ELSE tree2)
          IN  SetMid(side, [m EXCEPT !.super_script = Append(@, e)])

\* sub_script.push(e)
PushSub ==
    /\ pc = "building"
    /\ \E side \in {1, 2}, e \in SpecialMiddleScriptContentTypeNode :
          LET m == MidOf(IF side = 1 THEN tree ELSE tree2)
          IN  SetMid(side, [m EXCEPT !.sub_script = Append(@, e)])

\* let (v, w) = (m1.to_json(), m2.to_json());
ToJsonMid ==
    /\ pc = "building"
    /\ result' = SpecialMiddleScriptNode_to_json(MidOf(tree))
    /\ result2' = SpecialMiddleScriptNode_to_json(MidOf(tree2))
    /\ pc' = "returned"
    /\ UNCHANGED <<tree, tree2, depth>>

NextMid == PushSuper \/ PushSub \/ ToJsonMid

SpecMid == InitMid /\ [][NextMid]_vars

RECURSIVE Height(_)

\* The nesting depth of a tree: the number of to_json frames of MathNode
\* on the stack when the call is at its deepest node.
Height(n) ==
    LET ch == Children(n.content)
        hs == { Height(ch[i]) : i \in 1..Len(ch) }
    IN  1 + (IF hs = {} THEN 0 ELSE CHOOSE h \in hs : \A g \in hs : g <= h)

(***************************************************************************)
(* SpecTwice: one tree is built, converted, cloned, and the clone is       *)
(* converted.  tree2 holds the clone, result and result2 the two values.   *)
(***************************************************************************)
\* let v = tree.to_json(); let copy = tree.clone();
FirstCall ==
    /\ pc \in {"building", "built"}
    /\ result' = MathNode_to_json(tree)
    /\ tree2' = tree
    /\ pc' = "once"
    /\ UNCHANGED <<tree, depth, result2>>

\* let w = copy.to_json();
SecondCall ==
    /\ pc = "once"
    /\ result2' = MathNode_to_json(tree2)
    /\ pc' = IF MathNode_to_json(tree2) = PANIC THEN "panicked" ELSE "returned"
    /\ UNCHANGED <<tree, depth, tree2, result>>

NextTwice == Construct \/ ConstructPayload \/ FirstCall \/ SecondCall

SpecTwice == Init /\ [][NextTwice]_vars

(***************************************************************************)
(* SpecConc: two threads call to_json at the same time.  Thread 1 borrows  *)
(* tree; thread 2 borrows an independent tree (tree2), the same tree, or   *)
(* a subtree of it.  A call is two steps, as the body                      *)
(* json!({"id": self.id, "content": self.content.to_json()}) evaluates:   *)
(* the id is read, then the content is read and converted.  result and     *)
(* result2 hold what each call has built so far and then its value; pc     *)
(* holds the position of each call, what thread 2 borrows, and whether a   *)
(* step was taken while the other call was in progress.                     *)
(***************************************************************************)
Threads == {1, 2}

Targets == {"independent", "same", "subtree"}

ConcTrees == UNION { { Node(NodeId(1), c) : c \in Shapes(l) } : l \in Leaves }

\* The node the call of thread t borrows, as it is in memory now.
Borrowed(t) ==
    IF t = 1 \/ pc.target = "same" THEN tree
    ELSE IF pc.target = "independent" THEN tree2
    ELSE Children(tree.content)[1]

\* The call took the content out of the node it was given (&mut self).
SelfAfterToJson_taken(n) == MathNode_empty

\* to_json takes &self and the types have no interior mutability: the
\* node the call borrowed is what it was.
SelfAfterToJson(n) == n

\* What the call of thread t has built.
Local(t) == IF t = 1 THEN result ELSE result2

SetLocal(t, v) ==
    IF t = 1
    THEN result' = v /\ result2' = result2
    ELSE result2' = v /\ result' = result

\* The step of thread t moves it to position p.
Advance(t, p) ==
    pc' = [pc EXCEPT !.pos[t] = p,
                     !.overlapped = @ \/ pc.pos[3 - t] = "id_read"]

\* The trees in memory after a step of the call of thread t.
Memory(t) ==
    IF t = 2 /\ pc.target = "independent"
    THEN tree' = tree /\ tree2' = SelfAfterToJson(tree2)
    ELSE tree' = SelfAfterToJson(tree) /\ tree2' = tree2

InitConc ==
    /\ tree \in ConcTrees
    /\ depth = 1
    /\ result = NoResult
    /\ result2 = NoResult
    /\ \E tg \in Targets :
          /\ pc = [pos |-> <<"ready", "ready">>, target |-> tg,
                   overlapped |-> FALSE]
          /\ IF tg = "independent"
             THEN tree2 \in Leaves
             ELSE tree2 = MathNode_empty

\* "id": self.id
ReadId(t) ==
    /\ pc.pos[t] = "ready"
    /\ SetLocal(t, [jt |-> "partial", id |-> String_to_value(Borrowed(t).id)])
    /\ Advance(t, "id_read")
    /\ UNCHANGED <<tree, tree2, depth>>

\* "content": self.content.to_json(), and the object is returned.
ConvertContent(t) ==
    /\ pc.pos[t] = "id_read"
    /\ SetLocal(t, json_object(<<
           <<"id", Local(t).id>>,
           <<"content", MathNodeContent_to_json(Borrowed(t).content)>> >>))
    /\ Advance(t, "done")
    /\ Memory(t)
    /\ UNCHANGED depth

NextConc == \E t \in Threads : ReadId(t) \/ ConvertContent(t)

SpecConc == InitConc /\ [][NextConc]_vars

(***************************************************************************)
(* Properties.                                                              *)
(***************************************************************************)
Called == pc \in {"returned", "panicked"}

\* The typed error values of the error taxonomy.
IsError(v, kind) == v.jt = "error" /\ v.kind = kind

\* C1: MathNode::to_json is total: whatever variant is at the root or at a
\* nested position, the call returns a value and never panics.
C1_ToJsonTotal == Called => result # PANIC

\* C2: serialization is injective: two trees that are not structurally
\* equal never convert to the same value.
C2_Injective ==
    (pc = "returned" /\ tree # tree2) => result # result2

\* C3: the content of every variant converts to an object that carries a
\* string-valued "type" key.
C3_ContentIsTaggedObject ==
    pc = "returned" =>
        LET rc == Get(result, "content")
        IN  /\ IsObject(rc)
            /\ HasKey(rc, "type")
            /\ Get(rc, "type").jt = "string"

\* The enum values the root content c holds, each with the match that maps
\* it and the value found for it in the converted content rc.
EnumUses(c, rc) ==
    CASE c.tag = "Bracketed" ->
           { [arms |-> BracketStyleArms, v |-> c.style,
              out |-> Get(rc, "style")],
             [arms |-> BracketSizeArms, v |-> c.size,
              out |-> Get(rc, "size")] }
      [] c.tag = "Division" ->
           { [arms |-> DivisionStyleArms, v |-> c.style,
              out |-> Get(rc, "style")] }
      [] c.tag = "Relationship" ->
           { [arms |-> RelationOperatorArms, v |-> c.operator,
              out |-> Get(rc, "operator")] }
      [] c.tag = "Additions" ->
           { [arms |-> AddOrSubArms, v |-> c.terms[i][1],
              out |-> Get(Get(rc, "terms").jv[i], "operator")] :
                 i \in 1..Len(c.terms) }
      [] c.tag = "Multiplications" ->
           { [arms |-> IF c.terms[i][1].tag = "Multiplication"
                       THEN MulSymbolArms ELSE DivSymbolArms,
              v |-> c.terms[i][1].sym,
              out |-> Get(Get(Get(rc, "terms").jv[i], "operator"), "symbol")] :
                 i \in 1..Len(c.terms) }
           \cup
           { [arms |-> MulOrDivArms,
              v |-> c.terms[i][1],
              out |-> Get(Get(Get(rc, "terms").jv[i], "operator"), "type")] :
                 i \in 1..Len(c.terms) }
      [] OTHER -> {}

\* C4: every enum case that reaches the serializer is covered by exactly one
\* arm of its match and converts to the one string of that arm.
C4_EveryCaseOneArm ==
    pc = "returned" =>
        \A u \in EnumUses(tree.content, Get(result, "content")) :
            /\ Cardinality(ArmsFor(u.arms, u.v)) = 1
            /\ u.out.jt = "string"
            /\ u.out.jv # NoArm
            /\ \E i \in 1..Len(u.arms) :
                  /\ u.v.tag \in u.arms[i].pat
                  /\ u.out.jv = IF u.arms[i].arg
                                THEN u.arms[i].out \o ToString(u.v.n)
                                ELSE u.arms[i].out

C4_Witness ==
    /\ pc = "returned"
    /\ tree.content.tag = "Relationship"
    /\ tree.content.operator = UnitVariant("IsEqual")
    /\ Get(Get(result, "content"), "operator") = JStr("equal")

\* The variants whose arm maps them to nothing.
Unmapped == {"Log2", "Log10", "Ln"}

\* C5: a variant without a mapping makes the call return a typed
\* UnmappedVariant error value; the call does not panic.
C5_FailsClosed ==
    (Called /\ tree.content.tag \in Unmapped) =>
        IsError(result, "UnmappedVariant")

\* A definition node whose name / custom_function is of the wrong kind.
MalformedDefinition(c) ==
    \/ c.tag = "VariableDefinition" /\ c.name.content.tag # "Identifier"
    \/ /\ c.tag = "FunctionDefinition"
       /\ c.custom_function.content.tag # "CustomFunction"

\* C6: converting a VariableDefinition whose name is not an Identifier, or a
\* FunctionDefinition whose custom_function is not a function call, yields
\* a MalformedTree error that names the node's id.
C6_MalformedTreeReported ==
    (Called /\ MalformedDefinition(tree.content)) =>
        /\ IsError(result, "MalformedTree")
        /\ result.id = tree.id

Ragged(rows) == \E i, j \in 1..Len(rows) : Len(rows[i]) # Len(rows[j])

\* C7: a Matrix whose rows differ in length is flagged with a warning or an
\* error when it is converted, never accepted silently.
C7_RaggedMatrixFlagged ==
    (Called /\ tree.content.tag = "Matrix" /\ Ragged(tree.content.rows)) =>
        \/ result.jt \in {"error", "warning"}
        \/ IsObject(result) /\ HasKey(result, "warning")
        \/ /\ IsObject(result)
           /\ IsObject(Get(result, "content"))
           /\ HasKey(Get(result, "content"), "warning")

\* C8: a Relationship whose operator is Custom(s) converts with the operator
\* s, unchanged, for every string s.
C8_CustomPassedThrough ==
    (pc = "returned" /\ tree.content.tag = "Relationship") =>
        \A s \in CustomNames :
            LET rc == MathNodeContent_to_json(
                          [tree.content EXCEPT !.operator = Custom(s)])
            IN  rc # PANIC /\ Get(rc, "operator") = JStr(s)

\* The entries of a converted content that hold the output of children.
ChildKeys(rc) ==
    { rc.jv[i][1] : i \in { j \in 1..Len(rc.jv) :
                              rc.jv[j][2].jt \in {"object", "array"} } }

\* C9: in the output the "type" tag of a node comes before the output of
\* each of its children, and the output of lhs before that of rhs.
C9_PreOrder ==
    (pc = "returned" /\ IsObject(Get(result, "content"))) =>
        \A impl \in MapImpls :
            LET rc == Get(result, "content")
            IN  /\ \A k \in ChildKeys(rc) :
                      IterPos(impl, rc, "type") < IterPos(impl, rc, k)
                /\ tree.content.tag = "Relationship" =>
                      IterPos(impl, rc, "lhs") < IterPos(impl, rc, "rhs")

\* The optional fields of each variant; each is converted under the key of
\* its own name.
OptionalFields(tag) ==
    CASE tag = "Integration" -> {"lower_limit", "upper_limit"}
      [] tag \in {"SumNotation", "ProductNotation"} ->
           {"variable", "lower_limit", "upper_limit"}
      [] tag = "Quantity" -> {"unit"}
      [] tag = "Identifier" -> {"pre_script", "mid_script", "post_script"}
      [] tag \in {"VariableDefinition", "FunctionDefinition"} ->
           {"definition"}
      [] OTHER -> {}

\* C10: every optional field is a key of the converted object, null when
\* the field is None and the conversion of the child when it is Some.
C10_OptionalFieldsPresent ==
    pc = "returned" =>
        LET c == tree.content
            rc == Get(result, "content")
        IN  \A f \in OptionalFields(c.tag) :
                /\ HasKey(rc, f)
                /\ Get(rc, f) =
                     IF c[f] = None THEN JNull
                     ELSE IF f = "mid_script"
                          THEN SpecialMiddleScriptNode_to_json(c[f][1])
                          ELSE MathNode_to_json(c[f][1])

C10_Witness ==
    /\ pc = "returned"
    /\ tree.content.tag = "ProductNotation"
    /\ tree.content.variable # None
    /\ tree.content.lower_limit = None
    /\ Get(Get(result, "content"), "lower_limit") = JNull
    /\ Get(Get(result, "content"), "variable").jt = "object"

\* C11: the size of a Bracketed node converts to a string tag: Normal to
\* "normal", Auto to "auto", Sized(n) to "sized_<n>"; no other size converts
\* to the same tag, and the size is never a bare number.
C11_BracketSizeTags ==
    (pc = "returned" /\ tree.content.tag = "Bracketed") =>
        LET sz == tree.content.size
            out == Get(Get(result, "content"), "size")
        IN  /\ out.jt = "string"
            /\ out.jv = CASE sz.tag = "Normal" -> "normal"
                          [] sz.tag = "Auto" -> "auto"
                          [] sz.tag = "Sized" -> "sized_" \o ToString(sz.n)
            /\ \A other \in BracketSize \ {sz} :
                  Match(BracketSizeArms, other) # out.jv

C11_Witness ==
    /\ pc = "returned"
    /\ tree.content.tag = "Bracketed"
    /\ tree.content.size = [tag |-> "Sized", n |-> 2]
    /\ Get(Get(result, "content"), "size") = JStr("sized_2")

\* C12: a Bracketed node converts to an object with type "bracketed", the
\* conversion of its inner node, and a style string that no other of the
\* nine styles converts to (Round to "round", None to "none").
C12_BracketedStyle ==
    (pc = "returned" /\ tree.content.tag = "Bracketed") =>
        LET c == tree.content
            rc == Get(result, "content")
            out == Get(rc, "style")
        IN  /\ Get(rc, "type") = JStr("bracketed")
            /\ Get(rc, "inner") = MathNode_to_json(c.inner)
            /\ out.jt = "string"
            /\ out.jv # NoArm
            /\ c.style.tag = "Round" => out.jv = "round"
            /\ c.style.tag = "None" => out.jv = "none"
            /\ \A other \in BracketStyle \ {c.style} :
                  Match(BracketStyleArms, other) # out.jv

C12_Witness ==
    /\ pc = "returned"
    /\ tree.content.tag = "Bracketed"
    /\ tree.content.inner.content.tag = "Identifier"
    /\ tree.content.style = UnitVariant("Round")
    /\ Get(Get(result, "content"), "style") = JStr("round")
    /\ Get(Get(result, "content"), "inner") =
          MathNode_to_json(tree.content.inner)

\* C13: an Additions node converts to one term entry per element of terms,
\* in the same order, with operator "plus" for Addition and "minus" for
\* Subtraction; and with a first term tagged None it still converts, to as
\* many entries, the first one not requiring an operator.
C13_AdditionsTerms ==
    (pc = "returned" /\ tree.content.tag = "Additions") =>
        LET c == tree.content
            out == Get(Get(result, "content"), "terms")
        IN  /\ out.jt = "array"
            /\ Len(out.jv) = Len(c.terms)
            /\ \A i \in 1..Len(c.terms) :
                  /\ Get(out.jv[i], "term") = MathNode_to_json(c.terms[i][2])
                  /\ Get(out.jv[i], "operator") =
                        JStr(IF c.terms[i][1].tag = "Addition"
                             THEN "plus" ELSE "minus")
            /\ Len(c.terms) > 0 =>
                  LET rc == MathNodeContent_to_json(
                                [c EXCEPT !.terms[1][1] = NoneTag])
                  IN  /\ IsObject(rc)
                      /\ Len(Get(rc, "terms").jv) = Len(c.terms)
                      /\ Get(Get(rc, "terms").jv[1], "term") =
                            MathNode_to_json(c.terms[1][2])
                      /\ Get(Get(rc, "terms").jv[1], "operator") # JStr(NoArm)

C15_FractionAndDivisionDistinct ==
    ( /\ pc = "returned"
      /\ tree.content.tag = "Fraction"
      /\ tree2.content.tag = "Division"
      /\ tree2.content.style = UnitVariant("Fraction") ) =>
        /\ Get(Get(result, "content"), "type") = JStr("fraction")
        /\ Get(Get(result2, "content"), "type") = JStr("division")
        /\ Get(Get(result2, "content"), "style") = JStr("fraction")
        /\ Get(result, "content") # Get(result2, "content")

C15_Witness ==
    /\ pc = "returned"
    /\ tree.content.tag = "Fraction"
    /\ tree2.content.tag = "Division"
    /\ tree2.content.style = UnitVariant("Fraction")
    /\ tree.content.numerator = tree2.content.numerator
    /\ tree.content.denominator = tree2.content.denominator
    /\ Get(result, "content") # Get(result2, "content")

\* C16: a Quantity converts to an object with type "quantity" whose
\* "number" is the string of the number field, unchanged and unparsed,
\* and whose "unit" is null when unit is None.
C16_QuantityNumberVerbatim ==
    (pc = "returned" /\ tree.content.tag = "Quantity") =>
        LET c == tree.content
            rc == Get(result, "content")
        IN  /\ Get(rc, "type") = JStr("quantity")
            /\ Get(rc, "number") = JStr(c.number)
            /\ c.unit = None => Get(rc, "unit") = JNull

C16_Witness ==
    /\ pc = "returned"
    /\ tree.content.tag = "Quantity"
    /\ tree.content.number = "007"
    /\ tree.content.unit = None
    /\ Get(Get(result, "content"), "number") = JStr("007")
    /\ Get(Get(result, "content"), "unit") = JNull

\* C17: the node object of every node, at every depth, carries the id of
\* that node unchanged, and converting the tree again gives the same ids.
C17_IdsStable ==
    pc = "returned" =>
        /\ OutIds(result) = TreeIds(tree)
        /\ MathNode_to_json(tree) = result

C17_Witness ==
    /\ pc = "returned"
    /\ depth = 2
    /\ Len(TreeIds(tree)) >= 3
    /\ OutIds(result)[1] = JStr("n2")
    /\ OutIds(result)[Len(OutIds(result))] # JStr("n2")
    /\ Len(OutIds(result)) = Len(TreeIds(tree))

\* C18: two identifiers compare equal exactly when all six fields are
\* equal by value; separately built identifiers with the same field values
\* are equal and a difference in any one field makes them unequal.
C18_IdentifierEquality ==
    result # NoResult =>
        LET a == tree.content.v
            b == tree2.content.v
        IN  result = JBool(\A f \in IdentifierFields : a[f] = b[f])

C18_Witness ==
    /\ result = JBool(FALSE)
    /\ \A f \in IdentifierFields \ {"is_function"} :
          tree.content.v[f] = tree2.content.v[f]
    /\ tree.content.v.post_script # None
    /\ tree.content.v.is_function # tree2.content.v.is_function

\* C19: an identifier obtained from the constructors, and the node
\* MathNode::identifier wraps it in, never has an empty body.
C19_BodyNonEmpty ==
    pc = "constructed" =>
        /\ tree.content.v.body # ""
        /\ tree2.content.v.body # ""

\* C20: to_json leaves the trees as they are, and each of the concurrent
\* calls, in every interleaving, over independent trees and over a shared
\* tree or subtree, returns the value the call returns when run alone.
C20_ReadOnlyConcurrent ==
    /\ [](\A t \in Threads :
             pc.pos[t] = "done" => Local(t) = MathNode_to_json(Borrowed(t)))
    /\ [][tree' = tree /\ tree2' = tree2]_vars

C20_Witness ==
    /\ pc.pos = <<"done", "done">>
    /\ pc.overlapped
    /\ pc.target = "subtree"
    /\ result # PANIC
    /\ result = MathNode_to_json(tree)
    /\ result2 = MathNode_to_json(Children(tree.content)[1])
    /\ Get(result, "id") # Get(result2, "id")

\* C21: whatever limit the serializer has on the nesting depth, a tree
\* nested deeper than the limit converts to a DepthExceeded error value,
\* and a tree within the limit converts normally.
C21_DepthGuarded ==
    Called =>
        \A limit \in 1..MaxDepth :
            IF Height(tree) > limit
            THEN IsError(result, "DepthExceeded")
            ELSE ~IsError(result, "DepthExceeded")

C23_UnitStoredFields ==
    (pc = "returned" /\ tree.content.tag = "Unit") =>
        LET c == tree.content
            rc == Get(result, "content")
        IN  /\ Get(rc, "type") = JStr("unit")
            /\ Get(rc, "original") = MathNode_to_json(c.original_form)
            /\ Get(rc, "is_flattened") = MathNode_to_json(c.flattened_form)
            /\ \A o \in Leaves \cup {Sib} :
                  Get(MathNodeContent_to_json([c EXCEPT !.original_form = o]),
                      "is_flattened") = Get(rc, "is_flattened")

C23_Witness ==
    /\ pc = "returned"
    /\ tree.content.tag = "Unit"
    /\ tree.content.original_form # tree.content.flattened_form
    /\ Get(Get(result, "content"), "is_flattened") =
          MathNode_to_json(tree.content.flattened_form)
    /\ Get(Get(result, "content"), "is_flattened") #
          Get(Get(result, "content"), "original")

\* C24: the order on Identifier agrees with its equality: a.cmp(b) is
\* Equal exactly when a == b.
C24_CmpConsistentWithEq ==
    result # NoResult =>
        (result2 = JStr("Equal") <=> result = JBool(TRUE))

RECURSIVE OutNodeCount(_)

\* The number of node objects of a Value.
OutNodeCount(v) ==
    CASE v.jt = "object" ->
           (IF IsNodeObject(v) THEN 1 ELSE 0)
           + SumSeq([i \in 1..Len(v.jv) |-> OutNodeCount(v.jv[i][2])])
      [] v.jt = "array" ->
           SumSeq([i \in 1..Len(v.jv) |-> OutNodeCount(v.jv[i])])
      [] OTHER -> 0

\* C25: every node nested anywhere in the tree appears in the value as the
\* object MathNode::to_json produces for it, the optional base of
\* LogFunction included.
C25_NestedNodesCanonical ==
    pc = "returned" =>
        LET ns == TreeNodes(tree)
            os == OutNodes(result)
        IN  /\ Len(os) = Len(ns)
            /\ \A i \in 1..Len(ns) : os[i] = MathNode_to_json(ns[i])

\* The conversion of each element of a sequence of nodes, in order.
EachToJson(nodes) == [i \in 1..Len(nodes) |-> MathNode_to_json(nodes[i])]

\* The "term" entries of a converted terms array.
TermsOf(arr) == [i \in 1..Len(arr.jv) |-> Get(arr.jv[i], "term")]

\* C26: every sequence-valued field converts to an array with as many
\* entries as the sequence has elements, the i-th entry being the
\* conversion of the i-th element; each row of a Matrix keeps its length.
C26_SequencesKept ==
    pc = "returned" =>
        LET c == tree.content
            rc == Get(result, "content")
        IN  CASE c.tag \in {"Multiplications", "Additions"} ->
                   /\ Get(rc, "terms").jt = "array"
                   /\ TermsOf(Get(rc, "terms")) =
                         EachToJson([i \in 1..Len(c.terms) |-> c.terms[i][2]])
              [] c.tag \in {"CustomFunction", "SimpleMultinaryFunction"} ->
                   Get(rc, "parameters") = JArr(EachToJson(c.parameters))
              [] c.tag = "Script" ->
                   /\ Get(rc, "subscripts") = JArr(EachToJson(c.subscripts))
                   /\ Get(rc, "superscripts") =
                         JArr(EachToJson(c.superscripts))
              [] c.tag = "Matrix" ->
                   Get(rc, "rows") =
                       JArr([i \in 1..Len(c.rows) |->
                                JArr(EachToJson(c.rows[i]))])
              [] OTHER -> TRUE

C26_Witness ==
    /\ pc = "returned"
    /\ tree.content.tag = "Matrix"
    /\ Len(tree.content.rows) = 2
    /\ Len(tree.content.rows[1]) = 2
    /\ Len(tree.content.rows[2]) = 1
    /\ tree.content.rows[1][1] # tree.content.rows[1][2]
    /\ Len(Get(Get(result, "content"), "rows").jv[1].jv) = 2
    /\ Len(Get(Get(result, "content"), "rows").jv[2].jv) = 1

\* The tag the claim names for one mark.
MarkTag(e) ==
    CASE e.tag = "Hat" -> JStr("hat")
      [] e.tag = "Tilde" -> JStr("tilde")
      [] e.tag = "Bar" -> JStr("bar")
      [] e.tag = "Dot" -> JStr("dot_" \o ToString(e.n))

\* C27: SpecialMiddleScriptNode::to_json gives the super_script list and
\* the sub_script list as two arrays of the same lengths and order, Hat as
\* "hat", Tilde as "tilde", Bar as "bar", Dot(n) as "dot_<n>", and two
\* different mid-scripts never give the same value.
C27_MidScriptMapping ==
    pc = "returned" =>
        /\ \A p \in {<<MidOf(tree), result>>, <<MidOf(tree2), result2>>} :
              /\ Keys(p[2]) = <<"superscripts", "subscripts">>
              /\ Get(p[2], "superscripts") =
                    JArr([i \in 1..Len(p[1].super_script) |->
                             MarkTag(p[1].super_script[i])])
              /\ Get(p[2], "subscripts") =
                    JArr([i \in 1..Len(p[1].sub_script) |->
                             MarkTag(p[1].sub_script[i])])
        /\ MidOf(tree) # MidOf(tree2) => result # result2

C27_Witness ==
    /\ pc = "returned"
    /\ Len(MidOf(tree).super_script) = 2
    /\ Len(MidOf(tree2).super_script) = 2
    /\ MidOf(tree).super_script[1] = MidOf(tree2).super_script[2]
    /\ MidOf(tree).super_script[2] = MidOf(tree2).super_script[1]
    /\ MidOf(tree).super_script[1] # MidOf(tree).super_script[2]
    /\ MidOf(tree).sub_script = MidOf(tree2).sub_script
    /\ MidOf(tree).super_script[2].tag = "Dot"
    /\ result # result2

\* C28: the call ends on every tree, and the value it returns holds one
\* node object per node occurrence of the tree, a subtree that occurs
\* several times being emitted once per occurrence.
C28_OneObjectPerNode ==
    /\ pc \in {"building", "built"} => result = NoResult
    /\ Called => result # NoResult
    /\ pc = "returned" => OutNodeCount(result) = NodeCount(tree)

C28_Witness ==
    /\ pc = "returned"
    /\ tree.content.tag = "Matrix"
    /\ Len(tree.content.rows) = 2
    /\ Len(tree.content.rows[2]) = 2
    /\ tree.content.rows[1][2] = tree.content.rows[2][1]
    /\ NodeCount(tree) >= 5
    /\ OutNodeCount(result) = NodeCount(tree)

\* ---------------------------------------------------------------------
\* src/section_node.rs: the default L1 schema rendering of ToSectionNode.
\* tree holds the implementing object, tree2 the id_prefix of the calls,
\* result the Section of render_as_l1_schema and result2 the
\* MathematicalContent of render_as_l1_schema_document.

MaxMetadata == 2

MaxSegments == 2

\* RichTextSegment, one value or two per variant.
RichTextSegment ==
    { [tag |-> "Text", text |-> "a"],
      [tag |-> "Text", text |-> "Schema "],
      [tag |-> "Text", text |-> "Schema Document"],
      [tag |-> "StyledText", text |-> "Document", styles |-> <<"Bold">>],
      [tag |-> "Math", node |-> MathNode_empty],
      [tag |-> "Link", content |-> <<[tag |-> "Text", text |-> "a"]>>,
       target |-> "Url", tooltip |-> None],
      [tag |-> "FootnoteReference", text |-> "a"],
      [tag |-> "CodeInline", text |-> "a"] }

ParagraphNode(segments) == [segments |-> segments, alignment |-> None]

Section(id, title, content, metadata, display_options) ==
    [id |-> id, title |-> title, content |-> content,
     metadata |-> metadata, display_options |-> display_options]

\* The ("warning", ..) entry of the default rendering.
Warning == <<"warning", "Default L1 schema rendering used">>

\* The entries an implementation may put in the metadata, the warning's
\* own key and value included.
MetadataEntries == { <<"type", "Group">>, Warning }

IdPrefixes == {"", "thm"}

\* The required method: the section an implementation builds from its
\* own data, the id derived from id_prefix.
to_section_node(self, id_prefix) ==
    Section(id_prefix \o self.suffix, self.title, self.content,
            self.metadata, self.display_options)

render_as_l1_schema_replaced(self, id_prefix) ==
    LET section == to_section_node(self, id_prefix)
    IN  [section EXCEPT !.metadata = <<Warning>>]

render_as_l1_schema(self, id_prefix) ==
    LET section == to_section_node(self, id_prefix)
    IN  IF section.metadata # << >>
        THEN [section EXCEPT !.metadata = Append(section.metadata, Warning)]
        ELSE [section EXCEPT !.metadata = <<Warning>>]

SegmentText_any_text(s) ==
    IF "text" \in DOMAIN s THEN s.text ELSE ""

\* The closure of the title's map: the text a segment contributes.
SegmentText(s) ==
    CASE s.tag = "Text" -> s.text
      [] s.tag = "StyledText" -> s.text
      [] OTHER -> ""

RECURSIVE CollectString(_)
\* collect::<String>() over the mapped segments.
CollectString(segments) ==
    IF segments = << >> THEN ""
    ELSE SegmentText(Head(segments)) \o CollectString(Tail(segments))

\* title.as_ref().map_or_else(|| "Schema Document", |p| ...)
DocumentTitle(title) ==
    IF IsSome(title) THEN CollectString(Unwrap(title).segments)
    ELSE "Schema Document"

render_as_l1_schema_document(self, id_prefix) ==
    LET main_section == render_as_l1_schema(self, id_prefix \o "-main")
    IN  [id |-> id_prefix \o "-l1-doc",
         content_type |->
           [tag |-> "ScientificPaper",
            title |-> DocumentTitle(main_section.title),
            paper_type |-> "Research",
            venue |-> None,
            peer_reviewed |-> FALSE,
            content_metadata |->
              [language |-> Some("en-US"), version |-> Some("1.0"),
               created_at |-> None, last_modified |-> None,
               content_hash |-> None],
            academic_metadata |->
              [authors |-> << >>, date_published |-> None,
               date_modified |-> None, venue |-> None, doi |-> None,
               keywords |-> << >>],
            structure |->
              [abstract_content |-> Some(main_section),
               table_of_contents |-> None,
               body |-> <<main_section>>,
               footnotes |-> << >>, glossary |-> << >>,
               bibliography |-> << >>],
            relationships |->
              [parent_documents |-> << >>, child_documents |-> << >>,
               related_concepts |-> << >>, cross_references |-> << >>,
               dependency_graph |-> None]]]

InitL1 ==
    /\ \E content \in {<< >>, <<"Paragraph">>},
          display_options \in {None, Some("Collapsible")} :
           tree = [suffix |-> "-section", title |-> None,
                   content |-> content, metadata |-> << >>,
                   display_options |-> display_options]
    /\ tree2 \in IdPrefixes
    /\ depth = 0
    /\ result = NoResult
    /\ result2 = NoResult
    /\ pc = "building"

PushMetadata ==
    /\ pc = "building"
    /\ Len(tree.metadata) < MaxMetadata
    /\ \E e \in MetadataEntries :
           tree' = [tree EXCEPT !.metadata = Append(@, e)]
    /\ UNCHANGED <<depth, result, pc, tree2, result2>>

SetTitle ==
    /\ pc = "building"
    /\ tree.title = None
    /\ tree' = [tree EXCEPT !.title = Some(ParagraphNode(<< >>))]
    /\ UNCHANGED <<depth, result, pc, tree2, result2>>

PushSegment ==
    /\ pc = "building"
    /\ IsSome(tree.title)
    /\ Len(Unwrap(tree.title).segments) < MaxSegments
    /\ \E s \in RichTextSegment :
           tree' = [tree EXCEPT !.title =
                       Some(ParagraphNode(Append(Unwrap(@).segments, s)))]
    /\ UNCHANGED <<depth, result, pc, tree2, result2>>

RenderAsL1Schema ==
    /\ result = NoResult
    /\ result' = render_as_l1_schema(tree, tree2)
    /\ pc' = "rendered"
    /\ UNCHANGED <<tree, depth, tree2, result2>>

RenderAsL1SchemaDocument ==
    /\ result2 = NoResult
    /\ result2' = render_as_l1_schema_document(tree, tree2)
    /\ pc' = "rendered"
    /\ UNCHANGED <<tree, depth, tree2, result>>

NextL1 ==
    \/ PushMetadata
    \/ SetTitle
    \/ PushSegment
    \/ RenderAsL1Schema
    \/ RenderAsL1SchemaDocument

SpecL1 == InitL1 /\ [][NextL1]_vars

\* C29: the default render_as_l1_schema returns the section of
\* to_section_node(id_prefix) with exactly one ("warning", "Default L1
\* schema rendering used") entry appended at the end of its metadata,
\* empty or not; the earlier entries keep their order, and the id, title,
\* content and display_options are those of to_section_node.
C29_WarningAppended ==
    result # NoResult =>
        LET section == to_section_node(tree, tree2)
            n == Len(section.metadata)
        IN  /\ Len(result.metadata) = n + 1
            /\ result.metadata[n + 1] = Warning
            /\ \A i \in 1..n : result.metadata[i] = section.metadata[i]
            /\ result.id = section.id
            /\ result.title = section.title
            /\ result.content = section.content
            /\ result.display_options = section.display_options

C29_Witness ==
    /\ result # NoResult
    /\ Len(tree.metadata) = 2
    /\ tree.metadata[1] = Warning
    /\ tree.metadata[2] # Warning
    /\ Len(result.metadata) = 3
    /\ IsSome(result.title)
    /\ result.content # << >>
    /\ result.id = "thm-section"

RECURSIVE JoinStrings(_)
\* The strings of a sequence, one after the other.
JoinStrings(strings) ==
    IF strings = << >> THEN ""
    ELSE Head(strings) \o JoinStrings(Tail(strings))

\* The texts of the Text and StyledText segments of a paragraph, in order.
TitleTexts(paragraph) ==
    LET kept == SelectSeq(paragraph.segments,
                          LAMBDA s : s.tag \in {"Text", "StyledText"})
    IN  [i \in 1..Len(kept) |-> kept[i].text]

\* The parts of the document that C30 states and the code has: the id,
\* the one main section as body and abstract_content, the title of a
\* titled section.
DocumentOfMainSection ==
    LET main_section == render_as_l1_schema(tree, tree2 \o "-main")
        paper == result2.content_type
    IN  /\ result2.id = tree2 \o "-l1-doc"
        /\ paper.structure.body = <<main_section>>
        /\ paper.structure.abstract_content = Some(main_section)
        /\ IsSome(main_section.title) =>
               paper.title = JoinStrings(TitleTexts(Unwrap(main_section.title)))

\* C30 as stated: the document has the id id_prefix + "-l1-doc", the main
\* section of render_as_l1_schema(id_prefix + "-main") as its whole body
\* and as abstract_content, the title being the concatenation of the
\* texts of the Text and StyledText segments of the section title, and
\* the title is "Schema Document" exactly when the section has no title.
C30_DocumentAsStated ==
    result2 # NoResult =>
        /\ DocumentOfMainSection
        /\ result2.content_type.title = "Schema Document" <=> tree.title = None

\* C30, amended: the same document, the title being "Schema Document"
\* whenever the section has no title; a titled section gets the
\* concatenation of its Text and StyledText texts, whatever that is.
C30_Document ==
    result2 # NoResult =>
        /\ DocumentOfMainSection
        /\ tree.title = None => result2.content_type.title = "Schema Document"

C30_Witness ==
    /\ result2 # NoResult
    /\ IsSome(tree.title)
    /\ Len(Unwrap(tree.title).segments) = 2
    /\ Unwrap(tree.title).segments[1].tag = "Text"
    /\ Unwrap(tree.title).segments[2].tag = "StyledText"
    /\ result2.content_type.title = "Schema Document"
    /\ result2.id = "thm-l1-doc"
    /\ result2.content_type.structure.body[1].id = "thm-main-section"
    /\ Len(result2.content_type.structure.body[1].metadata) = 2

====
